---- MODULE Spec2Model ----
(***************************************************************************)
(* A model of src/the_way/snippet.rs: the Snippet record, its construction *)
(* from user input, its binary and JSON codecs, the date-range and tag     *)
(* queries, and the pretty printer.                                        *)
(*                                                                         *)
(* A Rust String is modelled as a sequence of one-character strings, a     *)
(* Vec<u8> as a sequence of numbers 0..255, a DateTime<Utc> as a number of *)
(* clock ticks since the epoch (TicksPerDay ticks make a calendar day),    *)
(* Option<T> as a sequence of length 0 or 1, and Result<T, E> as a record  *)
(* [ok |-> TRUE, val |-> v] or [ok |-> FALSE, err |-> e].                  *)
(***************************************************************************)
EXTENDS Integers, Sequences, FiniteSets, TLC

VARIABLES now, cur, coll, stream, written, reader, results, last

vars == <<now, cur, coll, stream, written, reader, results, last>>

(***************************************************************************)
(* Bounds of the model.                                                    *)
(***************************************************************************)
\* clock ticks in one calendar day
TicksPerDay == 2
\* the clock stops advancing here
MaxNow == 3
\* the largest calendar day a user types at the Date prompt
MaxDay == 2
\* the largest index the store hands out
MaxIndex == 1
\* the longest collection handed to filter_in_date_range
MaxColl == 3
\* the most records written to one JSON stream
MaxRecords == 3

(***************************************************************************)
(* Option and Result.                                                      *)
(***************************************************************************)
None == <<>>

Some(x) == <<x>>

Ok(v) == [ok |-> TRUE, val |-> v]

Err(e) == [ok |-> FALSE, err |-> e]

Range(s) == {s[i] : i \in 1..Len(s)}

RECURSIVE Concat(_)
\* the concatenation of a sequence of sequences
Concat(ss) == IF ss = <<>> THEN <<>> ELSE Head(ss) \o Concat(Tail(ss))

RECURSIVE Join(_, _)
\* [String]::join(sep)
Join(ss, sep) ==
  IF ss = <<>> THEN <<>>
  ELSE IF Len(ss) = 1 THEN ss[1]
  ELSE ss[1] \o sep \o Join(Tail(ss), sep)

(***************************************************************************)
(* Numbers and timestamps as text.                                         *)
(***************************************************************************)
DigitChars == <<"0", "1", "2", "3", "4", "5", "6", "7", "8", "9">>

IsDigit(c) == c \in Range(DigitChars)

DigitValue(c) == (CHOOSE i \in 1..10 : DigitChars[i] = c) - 1

RECURSIVE FormatNat(_)
\* the decimal text of an unsigned integer
FormatNat(n) ==
  IF n < 10 THEN <<DigitChars[n + 1]>>
  ELSE FormatNat(n \div 10) \o <<DigitChars[(n % 10) + 1]>>

RECURSIVE DigitsValue(_)
DigitsValue(ds) ==
  IF ds = <<>> THEN 0
  ELSE DigitsValue(SubSeq(ds, 1, Len(ds) - 1)) * 10 + DigitValue(ds[Len(ds)])

\* the text is one decimal number: "0", or digits with no leading zero
IsNatText(t) ==
  /\ t # <<>>
  /\ \A i \in 1..Len(t) : IsDigit(t[i])
  /\ (Len(t) > 1 => t[1] # "0")

\* DateTime::date(): the calendar day of a timestamp
DayOf(t) == t \div TicksPerDay

\* Date::and_hms(0, 0, 0): midnight of a calendar day
AndHms000(day) == day * TicksPerDay

\* date.format("%Y-%m-%d").to_string()
FormatDate(day) == FormatNat(day)

\* utils::parse_date: the calendar day a text names, or an error
ParseDate(text) ==
  IF IsNatText(text) THEN Ok(DigitsValue(text)) ELSE Err("parse_date")

\* chrono's Serialize for DateTime<Utc>: the day, "T", the time of day in
\* full precision, "Z"
FormatTime(t) == FormatNat(DayOf(t)) \o <<"T">> \o FormatNat(t % TicksPerDay) \o <<"Z">>

\* chrono's Deserialize for DateTime<Utc>
ParseTime(text) ==
  LET ts == {i \in 1..Len(text) : text[i] = "T"} IN
  IF Cardinality(ts) # 1 \/ text = <<>> \/ text[Len(text)] # "Z"
  THEN Err("invalid timestamp")
  ELSE LET i == CHOOSE j \in ts : TRUE
           d == SubSeq(text, 1, i - 1)
           h == SubSeq(text, i + 1, Len(text) - 1)
       IN IF IsNatText(d) /\ IsNatText(h) /\ DigitsValue(h) < TicksPerDay
          THEN Ok(DigitsValue(d) * TicksPerDay + DigitsValue(h))
          ELSE Err("invalid timestamp")

(***************************************************************************)
(* The language table (crate::language) and the helpers of crate::utils.   *)
(***************************************************************************)
\* languages: &HashMap<String, Language>, name -> extension
LanguageNames == {<<"c">>, <<"g", "o">>}

ExtensionOf(name) == IF name = <<"c">> THEN <<".", "c">> ELSE <<".", "g", "o">>

DefaultExtension == <<".", "t", "x", "t">>

\* Language::get_extension
GetExtension(language_name) ==
  IF language_name \in LanguageNames THEN ExtensionOf(language_name)
  ELSE DefaultExtension

\* char::to_ascii_lowercase
LowerChar(c) ==
  CASE c = "A" -> "a"
    [] c = "B" -> "b"
    [] c = "C" -> "c"
    [] c = "G" -> "g"
    [] c = "O" -> "o"
    [] OTHER -> c

\* str::to_ascii_lowercase
ToAsciiLowercase(s) == [i \in 1..Len(s) |-> LowerChar(s[i])]

RECURSIVE SplitFrom(_, _)
\* the whitespace-separated words of text, word being the one in progress
SplitFrom(text, word) ==
  IF text = <<>> THEN (IF word = <<>> THEN <<>> ELSE <<word>>)
  ELSE IF Head(text) = " "
       THEN (IF word = <<>> THEN <<>> ELSE <<word>>) \o SplitFrom(Tail(text), <<>>)
       ELSE SplitFrom(Tail(text), Append(word, Head(text)))

\* utils::split_tags
SplitTags(tags) == SplitFrom(tags, <<>>)

(***************************************************************************)
(* Snippet.                                                                *)
(***************************************************************************)
NewDefaultIndex(index, description, language, extension, tags, date, updated, code) ==
  [index |-> 0, description |-> description, language |-> language,
   code |-> code, extension |-> extension, tags |-> SplitTags(tags),
   date |-> date, updated |-> date]

\* Snippet::new
New(index, description, language, extension, tags, date, updated, code) ==
  [index |-> index, description |-> description, language |-> language,
   code |-> code, extension |-> extension, tags |-> SplitTags(tags),
   date |-> date, updated |-> updated]

\* Snippet::set_extension
WithExtension(self, language_name) ==
  [self EXCEPT !.extension = GetExtension(language_name)]

\* what the user types at the prompts of from_user
DescriptionInputs == {<<"d">>}

LanguageInputs == {<<"C">>, <<"z">>}

TagsInputs == {<<"a", " ", "B">>}

DateInputs == {FormatDate(MaxDay), <<"x">>}

CodeInputs == {<<>>, <<"x">>}

EditorInputs == {<<>>}

\* utils::user_input: the text typed, or the default shown when there is one
UserInputs(typed, default) == typed \cup Range(default)

\* Snippet::from_user, given what the user answers (inp) and the two readings
\* of the clock (t1 at the Date step, t2 at the end).
FromUser(index, old_snippet, inp, t1, t2) ==
  LET description == inp.description
      language == ToAsciiLowercase(inp.language)
      extension == GetExtension(language)
      tags == inp.tags
      date == IF old_snippet # None
              THEN (IF ParseDate(inp.date).ok
                    THEN Ok(AndHms000(ParseDate(inp.date).val))
                    ELSE ParseDate(inp.date))
              ELSE Ok(t1)
      code == IF inp.code = <<>> THEN inp.editor ELSE inp.code
  IN IF ~date.ok THEN date
     ELSE Ok(New(index, description, language, extension, tags, date.val, t2, code))

\* the prompts' defaults and the answers they allow; the editor opens only
\* when no code is typed
FromUserInputs(old_snippet) ==
  LET old_description == [i \in 1..Len(old_snippet) |-> old_snippet[i].description]
      old_language == [i \in 1..Len(old_snippet) |-> old_snippet[i].language]
      old_tags == [i \in 1..Len(old_snippet) |-> Join(old_snippet[i].tags, <<" ">>)]
      old_date == [i \in 1..Len(old_snippet) |-> FormatDate(DayOf(old_snippet[i].date))]
      old_code == [i \in 1..Len(old_snippet) |-> old_snippet[i].code]
      answers == [description : UserInputs(DescriptionInputs, old_description),
                  language : UserInputs(LanguageInputs, old_language),
                  tags : UserInputs(TagsInputs, old_tags),
                  date : IF old_snippet = None THEN {<<>>}
                         ELSE UserInputs(DateInputs, old_date),
                  code : CodeInputs,
                  editor : UserInputs(EditorInputs, old_code)]
  IN {inp \in answers : inp.code # <<>> => inp.editor = <<>>}

(***************************************************************************)
(* The binary codec: bincode over the derived Serialize / Deserialize.     *)
(***************************************************************************)
\* the UTF-8 code of each character the model's strings use
CharCodes ==
  << <<"\n", 10>>, <<" ", 32>>, <<"\"", 34>>, <<".", 46>>,
     <<"0", 48>>, <<"1", 49>>, <<"2", 50>>, <<"3", 51>>, <<"4", 52>>,
     <<"5", 53>>, <<"6", 54>>, <<"7", 55>>, <<"8", 56>>, <<"9", 57>>,
     <<"A", 65>>, <<"B", 66>>, <<"C", 67>>, <<"G", 71>>, <<"O", 79>>,
     <<"T", 84>>, <<"Z", 90>>, <<"\\", 92>>,
     <<"a", 97>>, <<"b", 98>>, <<"c", 99>>, <<"d", 100>>, <<"e", 101>>,
     <<"f", 102>>, <<"g", 103>>, <<"o", 111>>, <<"t", 116>>, <<"x", 120>>,
     <<"y", 121>>, <<"z", 122>> >>

ByteOf(c) == CharCodes[CHOOSE i \in 1..Len(CharCodes) : CharCodes[i][1] = c][2]

IsCharByte(b) == \E i \in 1..Len(CharCodes) : CharCodes[i][2] = b

CharOf(b) == CharCodes[CHOOSE i \in 1..Len(CharCodes) : CharCodes[i][2] = b][1]

RECURSIVE LittleEndian(_, _)
\* the k low bytes of n, the lowest first
LittleEndian(n, k) ==
  IF k = 0 THEN <<>> ELSE <<n % 256>> \o LittleEndian(n \div 256, k - 1)

\* a u64 (and a usize, and a length) as eight little-endian bytes
U64Bytes(n) == LittleEndian(n, 8)

\* a string: its length in bytes, then its bytes
StrBytes(s) == U64Bytes(Len(s)) \o [i \in 1..Len(s) |-> ByteOf(s[i])]

\* a Vec<String>: its length, then its strings
VecStrBytes(v) == U64Bytes(Len(v)) \o Concat([i \in 1..Len(v) |-> StrBytes(v[i])])

ToBytesDropsTags(self) ==
  Concat(<<U64Bytes(self.index), StrBytes(self.description), StrBytes(self.language),
           StrBytes(self.code), StrBytes(self.extension), VecStrBytes(<<>>),
           StrBytes(FormatTime(self.date)), StrBytes(FormatTime(self.updated))>>)

\* Snippet::to_bytes: the fields in the order of the struct
ToBytes(self) ==
  Concat(<<U64Bytes(self.index), StrBytes(self.description), StrBytes(self.language),
           StrBytes(self.code), StrBytes(self.extension), VecStrBytes(self.tags),
           StrBytes(FormatTime(self.date)), StrBytes(FormatTime(self.updated))>>)

\* Each reader takes the bytes and a position and returns the value read and
\* the position after it, or an error.
ReadU64(bytes, p) ==
  IF p + 7 > Len(bytes) THEN Err("unexpected end of input")
  ELSE LET RECURSIVE Value(_)
           Value(i) == IF i = 8 THEN 0 ELSE bytes[p + i] + 256 * Value(i + 1)
       IN [ok |-> TRUE, val |-> Value(0), pos |-> p + 8]

ReadStr(bytes, p) ==
  LET n == ReadU64(bytes, p) IN
  IF ~n.ok THEN n
  ELSE IF n.pos + n.val - 1 > Len(bytes) THEN Err("unexpected end of input")
  ELSE IF \E i \in n.pos..(n.pos + n.val - 1) : ~IsCharByte(bytes[i])
       THEN Err("invalid utf-8")
  ELSE [ok |-> TRUE, val |-> [i \in 1..n.val |-> CharOf(bytes[n.pos + i - 1])],
        pos |-> n.pos + n.val]

RECURSIVE ReadStrs(_, _, _, _)
ReadStrs(bytes, p, n, acc) ==
  IF n = 0 THEN [ok |-> TRUE, val |-> acc, pos |-> p]
  ELSE LET s == ReadStr(bytes, p) IN
       IF ~s.ok THEN s ELSE ReadStrs(bytes, s.pos, n - 1, Append(acc, s.val))

ReadVecStr(bytes, p) ==
  LET n == ReadU64(bytes, p) IN
  IF ~n.ok THEN n ELSE ReadStrs(bytes, n.pos, n.val, <<>>)

ReadTime(bytes, p) ==
  LET s == ReadStr(bytes, p) IN
  IF ~s.ok THEN s
  ELSE LET t == ParseTime(s.val) IN
       IF ~t.ok THEN t ELSE [ok |-> TRUE, val |-> t.val, pos |-> s.pos]

\* Snippet::from_bytes: the fields in the order of the struct
FromBytes(bytes) ==
  LET index == ReadU64(bytes, 1) IN
  IF ~index.ok THEN Err(index.err) ELSE
  LET description == ReadStr(bytes, index.pos) IN
  IF ~description.ok THEN Err(description.err) ELSE
  LET language == ReadStr(bytes, description.pos) IN
  IF ~language.ok THEN Err(language.err) ELSE
  LET code == ReadStr(bytes, language.pos) IN
  IF ~code.ok THEN Err(code.err) ELSE
  LET extension == ReadStr(bytes, code.pos) IN
  IF ~extension.ok THEN Err(extension.err) ELSE
  LET tags == ReadVecStr(bytes, extension.pos) IN
  IF ~tags.ok THEN Err(tags.err) ELSE
  LET date == ReadTime(bytes, tags.pos) IN
  IF ~date.ok THEN Err(date.err) ELSE
  LET updated == ReadTime(bytes, date.pos) IN
  IF ~updated.ok THEN Err(updated.err) ELSE
  Ok([index |-> index.val, description |-> description.val,
      language |-> language.val, code |-> code.val,
      extension |-> extension.val, tags |-> tags.val,
      date |-> date.val, updated |-> updated.val])

(***************************************************************************)
(* The queries.                                                            *)
(***************************************************************************)
InDateRangeClosed(self, from_date, to_date) ==
  from_date <= self.date /\ self.date <= to_date

\* Snippet::in_date_range
InDateRange(self, from_date, to_date) ==
  from_date <= self.date /\ self.date < to_date

RECURSIVE FilterInDateRange(_, _, _)
\* Snippet::filter_in_date_range: into_iter().filter(..).collect()
FilterInDateRange(snippets, from_date, to_date) ==
  IF snippets = <<>> THEN <<>>
  ELSE (IF InDateRange(Head(snippets), from_date, to_date)
        THEN <<Head(snippets)>> ELSE <<>>)
       \o FilterInDateRange(Tail(snippets), from_date, to_date)

\* String == String: the same length and the same characters
StrEq(a, b) == Len(a) = Len(b) /\ \A i \in 1..Len(a) : a[i] = b[i]

StrEqIgnoreCase(a, b) ==
  Len(a) = Len(b) /\ \A i \in 1..Len(a) : LowerChar(a[i]) = LowerChar(b[i])

RECURSIVE Contains(_, _)
\* [String]::contains: a scan from the front
Contains(v, x) ==
  IF v = <<>> THEN FALSE
  ELSE IF StrEq(Head(v), x) THEN TRUE ELSE Contains(Tail(v), x)

HasTagIgnoreCase(self, tag) == \E i \in 1..Len(self.tags) : StrEqIgnoreCase(self.tags[i], tag)

\* Snippet::has_tag
HasTag(self, tag) == Contains(self.tags, tag)

(***************************************************************************)
(* The JSON codec: serde_json over the derived Serialize / Deserialize.    *)
(***************************************************************************)
\* the names of the fields of Snippet, as the derive writes and matches them
KeyIndex == <<"i", "n", "d", "e", "x">>

KeyDescription == <<"d", "e", "s", "c", "r", "i", "p", "t", "i", "o", "n">>

KeyLanguage == <<"l", "a", "n", "g", "u", "a", "g", "e">>

KeyCode == <<"c", "o", "d", "e">>

KeyExtension == <<"e", "x", "t", "e", "n", "s", "i", "o", "n">>

KeyTags == <<"t", "a", "g", "s">>

KeyDate == <<"d", "a", "t", "e">>

KeyUpdated == <<"u", "p", "d", "a", "t", "e", "d">>

\* a character inside a JSON string, escaped
EscapeChar(c) ==
  CASE c = "\"" -> <<"\\", "\"">>
    [] c = "\\" -> <<"\\", "\\">>
    [] c = "\n" -> <<"\\", "n">>
    [] OTHER -> <<c>>

\* a string as JSON text
JsonString(s) == <<"\"">> \o Concat([i \in 1..Len(s) |-> EscapeChar(s[i])]) \o <<"\"">>

\* an array of strings as JSON text
JsonStrArray(v) ==
  <<"[">> \o Join([i \in 1..Len(v) |-> JsonString(v[i])], <<",">>) \o <<"]">>

\* one member of an object: "key":value
Member(key, value) == JsonString(key) \o <<":">> \o value

\* an object of the given members
Object(members) == <<"{">> \o Join(members, <<",">>) \o <<"}">>

ToJsonTextSkipsIndex(self) ==
  Object(<<Member(KeyDescription, JsonString(self.description)),
           Member(KeyLanguage, JsonString(self.language)),
           Member(KeyCode, JsonString(self.code)),
           Member(KeyExtension, JsonString(self.extension)),
           Member(KeyTags, JsonStrArray(self.tags)),
           Member(KeyDate, JsonString(FormatTime(self.date))),
           Member(KeyUpdated, JsonString(FormatTime(self.updated)))>>)

\* Snippet::to_json: what serde_json::to_writer writes for one snippet
ToJsonText(self) ==
  Object(<<Member(KeyIndex, FormatNat(self.index)),
           Member(KeyDescription, JsonString(self.description)),
           Member(KeyLanguage, JsonString(self.language)),
           Member(KeyCode, JsonString(self.code)),
           Member(KeyExtension, JsonString(self.extension)),
           Member(KeyTags, JsonStrArray(self.tags)),
           Member(KeyDate, JsonString(FormatTime(self.date))),
           Member(KeyUpdated, JsonString(FormatTime(self.updated)))>>)

\* Each parser takes the text and a position and returns the value parsed and
\* the position after it, or an error.
Parsed(v, p) == [ok |-> TRUE, val |-> v, pos |-> p]

IsWs(c) == c \in {" ", "\n"}

RECURSIVE SkipWs(_, _)
\* Deserializer::parse_whitespace: the position of the next character that is
\* no whitespace (Len(text) + 1 at the end of the input)
SkipWs(text, p) ==
  IF p <= Len(text) /\ IsWs(text[p]) THEN SkipWs(text, p + 1) ELSE p

RECURSIVE ParseStringFrom(_, _, _)
\* the rest of a JSON string whose opening quote is read
ParseStringFrom(text, p, acc) ==
  IF p > Len(text) THEN Err("EOF while parsing a string")
  ELSE IF text[p] = "\"" THEN Parsed(acc, p + 1)
  ELSE IF text[p] = "\n" THEN Err("control character in string")
  ELSE IF text[p] = "\\"
       THEN IF p + 1 > Len(text) THEN Err("EOF while parsing a string")
            ELSE IF text[p + 1] \in {"\"", "\\"}
                 THEN ParseStringFrom(text, p + 2, Append(acc, text[p + 1]))
            ELSE IF text[p + 1] = "n"
                 THEN ParseStringFrom(text, p + 2, Append(acc, "\n"))
            ELSE Err("invalid escape")
  ELSE ParseStringFrom(text, p + 1, Append(acc, text[p]))

\* a JSON string
ParseString(text, p) ==
  IF p > Len(text) THEN Err("EOF while parsing a value")
  ELSE IF text[p] # "\"" THEN Err("invalid type: expected a string")
  ELSE ParseStringFrom(text, p + 1, <<>>)

RECURSIVE DigitsEnd(_, _)
DigitsEnd(text, p) ==
  IF p <= Len(text) /\ IsDigit(text[p]) THEN DigitsEnd(text, p + 1) ELSE p

\* an unsigned JSON number
ParseNumber(text, p) ==
  IF p > Len(text) THEN Err("EOF while parsing a value")
  ELSE IF ~IsDigit(text[p]) THEN Err("invalid type: expected usize")
  ELSE LET e == DigitsEnd(text, p) IN
       IF ~IsNatText(SubSeq(text, p, e - 1)) THEN Err("invalid number")
       ELSE Parsed(DigitsValue(SubSeq(text, p, e - 1)), e)

RECURSIVE ParseElements(_, _, _)
\* the elements of an array of strings after its first
ParseElements(text, p, acc) ==
  LET q == SkipWs(text, p) IN
  IF q > Len(text) THEN Err("EOF while parsing a list")
  ELSE IF text[q] = "]" THEN Parsed(acc, q + 1)
  ELSE IF text[q] # "," THEN Err("expected comma or closing bracket")
  ELSE LET r == SkipWs(text, q + 1) IN
       IF r <= Len(text) /\ text[r] = "]" THEN Err("trailing comma")
       ELSE LET s == ParseString(text, r) IN
            IF ~s.ok THEN s ELSE ParseElements(text, s.pos, Append(acc, s.val))

\* a JSON array of strings
ParseStrArray(text, p) ==
  IF p > Len(text) THEN Err("EOF while parsing a value")
  ELSE IF text[p] # "[" THEN Err("invalid type: expected a sequence")
  ELSE LET q == SkipWs(text, p + 1) IN
       IF q > Len(text) THEN Err("EOF while parsing a list")
       ELSE IF text[q] = "]" THEN Parsed(<<>>, q + 1)
       ELSE LET s == ParseString(text, q) IN
            IF ~s.ok THEN s ELSE ParseElements(text, s.pos, <<s.val>>)

\* a timestamp: a JSON string that chrono parses
ParseTimestamp(text, p) ==
  LET s == ParseString(text, p) IN
  IF ~s.ok THEN s
  ELSE LET t == ParseTime(s.val) IN
       IF ~t.ok THEN t ELSE Parsed(t.val, s.pos)

\* the value of a field the struct does not have, read and dropped; the
\* records of the model hold strings, numbers and arrays of strings
ParseIgnored(text, p) ==
  IF p > Len(text) THEN Err("EOF while parsing a value")
  ELSE IF text[p] = "\"" THEN ParseString(text, p)
  ELSE IF text[p] = "[" THEN ParseStrArray(text, p)
  ELSE IF IsDigit(text[p]) THEN ParseNumber(text, p)
  ELSE Err("expected value")

\* the derive's field identifier of a key
FieldOf(key) ==
  CASE key = KeyIndex -> "index"
    [] key = KeyDescription -> "description"
    [] key = KeyLanguage -> "language"
    [] key = KeyCode -> "code"
    [] key = KeyExtension -> "extension"
    [] key = KeyTags -> "tags"
    [] key = KeyDate -> "date"
    [] key = KeyUpdated -> "updated"
    [] OTHER -> "ignore"

\* the value of a field, by the field's type
ParseField(field, text, p) ==
  CASE field = "index" -> ParseNumber(text, p)
    [] field \in {"description", "language", "code", "extension"} -> ParseString(text, p)
    [] field = "tags" -> ParseStrArray(text, p)
    [] field \in {"date", "updated"} -> ParseTimestamp(text, p)
    [] OTHER -> ParseIgnored(text, p)

FieldNames ==
  {"index", "description", "language", "code", "extension", "tags", "date", "updated"}

\* no field seen yet: each field an Option
NoFields == [f \in FieldNames |-> None]

\* the end of the derive's visit_map: a field without #[serde(default)] must
\* have been seen, the others take their default (t is Utc::now())
Finish(fields, t) ==
  IF \E f \in {"description", "language", "code"} : fields[f] = None
  THEN Err("missing field")
  ELSE Ok([index |-> IF fields["index"] = None THEN 0 ELSE fields["index"][1],
           description |-> fields["description"][1],
           language |-> fields["language"][1],
           code |-> fields["code"][1],
           extension |-> IF fields["extension"] = None THEN <<>> ELSE fields["extension"][1],
           tags |-> IF fields["tags"] = None THEN <<>> ELSE fields["tags"][1],
           date |-> IF fields["date"] = None THEN t ELSE fields["date"][1],
           updated |-> IF fields["updated"] = None THEN t ELSE fields["updated"][1]])

RECURSIVE ParseMembers(_, _, _, _)
\* the members of an object from position p, which holds a key
ParseMembers(text, p, fields, t) ==
  IF p > Len(text) THEN Err("EOF while parsing an object")
  ELSE IF text[p] # "\"" THEN Err("key must be a string")
  ELSE
  LET key == ParseString(text, p) IN
  IF ~key.ok THEN key ELSE
  LET c == SkipWs(text, key.pos) IN
  IF c > Len(text) THEN Err("EOF while parsing an object")
  ELSE IF text[c] # ":" THEN Err("expected colon")
  ELSE
  LET field == FieldOf(key.val)
      value == ParseField(field, text, SkipWs(text, c + 1))
  IN
  IF ~value.ok THEN value
  ELSE IF field # "ignore" /\ fields[field] # None THEN Err("duplicate field")
  ELSE
  LET seen == IF field = "ignore" THEN fields
              ELSE [fields EXCEPT ![field] = Some(value.val)]
      q == SkipWs(text, value.pos)
  IN
  IF q > Len(text) THEN Err("EOF while parsing an object")
  ELSE IF text[q] = "}"
       THEN (IF Finish(seen, t).ok THEN Parsed(Finish(seen, t).val, q + 1)
             ELSE Finish(seen, t))
  ELSE IF text[q] # "," THEN Err("expected comma or closing brace")
  ELSE LET r == SkipWs(text, q + 1) IN
       IF r <= Len(text) /\ text[r] = "}" THEN Err("trailing comma")
       ELSE ParseMembers(text, r, seen, t)

\* Deserialize for Snippet from the JSON object at position p
ParseSnippet(text, p, t) ==
  IF text[p] # "{" THEN Err("invalid type: expected struct Snippet")
  ELSE LET q == SkipWs(text, p + 1) IN
       IF q > Len(text) THEN Err("EOF while parsing an object")
       ELSE IF text[q] = "}"
            THEN (IF Finish(NoFields, t).ok THEN Parsed(Finish(NoFields, t).val, q + 1)
                  ELSE Finish(NoFields, t))
       ELSE ParseMembers(text, q, NoFields, t)

\* Snippet::read: the iterator over a stream not yet read
NewReader == [pos |-> 1, failed |-> FALSE, done |-> FALSE]

\* One next() of the iterator Snippet::read returns: the item (None at the
\* end) and the iterator after it. A record that fails to decode is returned
\* as an error and ends the iteration: serde_json's StreamDeserializer over
\* an io::Read marks itself failed and its next call returns None.
StreamNext(text, rd, t) ==
  LET p == SkipWs(text, rd.pos) IN
  IF rd.failed \/ p > Len(text)
  THEN [item |-> None, rd |-> [rd EXCEPT !.done = TRUE]]
  ELSE LET r == ParseSnippet(text, p, t) IN
       IF r.ok THEN [item |-> Some(Ok(r.val)), rd |-> [rd EXCEPT !.pos = r.pos]]
       ELSE [item |-> Some(Err(r.err)), rd |-> [rd EXCEPT !.failed = TRUE]]

(***************************************************************************)
(* The pretty printer. A run is a text with the style it is shown in; the  *)
(* highlighter (crate::language::CodeHighlight) makes the styled runs.     *)
(***************************************************************************)
Run(style, text) == [style |-> style, text |-> text]

\* utils::END_ANSI: the run that resets the style
END_ANSI == Run("reset", <<>>)

\* String::from("\n")
Newline == Run("none", <<"\n">>)

\* CodeHighlight::highlight_block: the block in the language's colour, or an
\* error when the colour does not resolve
HighlightBlock(colour_ok) ==
  IF colour_ok THEN Ok(Run("block", <<"#">>)) ELSE Err("HighlightError")

\* CodeHighlight::highlight_string
HighlightString(text, style) == Run(style, text)

RECURSIVE LinesFrom(_, _)
\* the lines of a text, each with its line end; line is the one in progress
LinesFrom(text, line) ==
  IF text = <<>> THEN (IF line = <<>> THEN <<>> ELSE <<line>>)
  ELSE IF Head(text) = "\n"
       THEN <<Append(line, "\n")>> \o LinesFrom(Tail(text), <<>>)
       ELSE LinesFrom(Tail(text), Append(line, Head(text)))

\* the extensions the highlighter has a grammar for
GrammarExtensions == {<<".", "c">>, DefaultExtension}

\* CodeHighlight::highlight_code: one styled run per line of the code, or an
\* error when no grammar is registered for the extension or the theme does
\* not resolve
HighlightCode(code, extension, theme_ok) ==
  IF extension \notin GrammarExtensions \/ ~theme_ok THEN Err("HighlightError")
  ELSE LET lines == LinesFrom(code, <<>>) IN
       Ok([i \in 1..Len(lines) |-> Run("code", lines[i])])

\* Snippet::pretty_print_header
PrettyPrintHeader(self, colour_ok) ==
  LET block == HighlightBlock(colour_ok) IN
  IF ~block.ok THEN block
  ELSE Ok(<<block.val,
            HighlightString(<<"#">> \o FormatNat(self.index) \o <<".", " ">>
                            \o self.description \o <<" ">>, "main"),
            HighlightString(<<"|", " ">> \o self.language \o <<" ">>, "accent"),
            HighlightString(<<":">> \o Join(self.tags, <<":">>) \o <<":", "\n">>, "tag"),
            END_ANSI>>)

PrettyPrintCodeNoReset(self, theme_ok) ==
  HighlightCode(self.code, self.extension, theme_ok)

\* Snippet::pretty_print_code
PrettyPrintCode(self, theme_ok) ==
  LET colorized == HighlightCode(self.code, self.extension, theme_ok) IN
  IF ~colorized.ok THEN colorized
  ELSE Ok(Append(colorized.val, END_ANSI))

\* Snippet::pretty_print
PrettyPrint(self, colour_ok, theme_ok) ==
  LET header == PrettyPrintHeader(self, colour_ok) IN
  IF ~header.ok THEN header
  ELSE LET code == PrettyPrintCode(self, theme_ok) IN
       IF ~code.ok THEN code
       ELSE Ok(<<Newline>> \o header.val \o <<Newline>> \o code.val
               \o <<Newline, Newline>>)

(***************************************************************************)
(* The life of a snippet: made by from_user, edited by from_user, its      *)
(* extension set, stored and loaded, shown.                                *)
(***************************************************************************)
Min(a, b) == IF a <= b THEN a ELSE b

Init ==
  /\ now = 0
  /\ cur = None
  /\ coll = <<>>
  /\ stream = <<>>
  /\ written = <<>>
  /\ reader = None
  /\ results = <<>>
  /\ last = [op |-> "init"]

\* time passes
Tick ==
  /\ now < MaxNow
  /\ now' = now + 1
  /\ UNCHANGED <<cur, coll, stream, written, reader, results, last>>

\* from_user(index, languages, None): a new snippet; the clock is read at the
\* Date step and again, maybe a tick later, once the code is entered
FromUserNew ==
  \E index \in 0..MaxIndex, inp \in FromUserInputs(None), t2 \in now..Min(now + 1, MaxNow) :
    LET r == FromUser(index, None, inp, now, t2) IN
    /\ cur' = Some(r.val)
    /\ now' = t2
    /\ last' = [op |-> "from_user", old_index |-> None, index |-> index,
                ok |-> r.ok, time |-> t2]
    /\ UNCHANGED <<coll, stream, written, reader, results>>

\* from_user(index, languages, Some(cur)): an edit of the current snippet
FromUserEdit ==
  /\ cur # None
  /\ \E index \in 0..MaxIndex, inp \in FromUserInputs(cur) :
       LET r == FromUser(index, cur, inp, now, now) IN
       /\ cur' = IF r.ok THEN Some(r.val) ELSE cur
       /\ last' = [op |-> "from_user", old_index |-> Some(cur[1].index),
                   index |-> index, ok |-> r.ok, time |-> now]
       /\ UNCHANGED <<now, coll, stream, written, reader, results>>

\* cur.set_extension(language_name, languages)
SetExtension ==
  /\ cur # None
  /\ \E language_name \in LanguageNames \cup {<<"z">>} :
       /\ cur' = Some(WithExtension(cur[1], language_name))
       /\ last' = [op |-> "set_extension", language_name |-> language_name]
  /\ UNCHANGED <<now, coll, stream, written, reader, results>>

Next ==
  \/ Tick
  \/ FromUserNew
  \/ FromUserEdit
  \/ SetExtension

Spec == Init /\ [][Next]_vars

(***************************************************************************)
(* The use of a snippet: stored and loaded again, and shown.               *)
(***************************************************************************)
\* the snippets in use: made by from_user, their extension set by
\* set_extension, their date edited
UseSnippets ==
  {New(index, description, language, GetExtension(language_name), tags, time[1],
       time[2], code) :
     index \in {0, MaxIndex, 300},
     description \in {<<"d">>, <<"a", "\"", "\\">>},
     language \in {<<"c">>, <<"z">>},
     language_name \in LanguageNames \cup {<<"z">>},
     tags \in {<<>>, <<"a", " ", "B">>},
     time \in {<<0, 0>>, <<1, MaxNow>>, <<AndHms000(MaxDay), MaxNow>>},
     code \in {<<>>, <<"x">>, <<"y", "\n", "z">>}}

InitUse ==
  /\ now = 0
  /\ cur \in {Some(s) : s \in UseSnippets}
  /\ coll = <<>>
  /\ stream = <<>>
  /\ written = <<>>
  /\ reader = None
  /\ results = <<>>
  /\ last = [op |-> "init"]

\* the store keeps cur.to_bytes() and from_bytes decodes what it gives back:
\* all of the bytes, or the bytes short of their last `cut`
StoreLoad ==
  /\ cur # None
  /\ \E cut \in 0..1 :
       LET bytes == ToBytes(cur[1]) IN
       last' = [op |-> "from_bytes", cut |-> cut,
                result |-> FromBytes(SubSeq(bytes, 1, Len(bytes) - cut))]
  /\ UNCHANGED <<now, cur, coll, stream, written, reader, results>>

\* cur.pretty_print_header(highlighter, language)
ShowHeader ==
  /\ cur # None
  /\ \E colour_ok \in BOOLEAN :
       last' = [op |-> "pretty_print_header",
                result |-> PrettyPrintHeader(cur[1], colour_ok)]
  /\ UNCHANGED <<now, cur, coll, stream, written, reader, results>>

\* cur.pretty_print_code(highlighter)
ShowCode ==
  /\ cur # None
  /\ \E theme_ok \in BOOLEAN :
       last' = [op |-> "pretty_print_code",
                highlight |-> HighlightCode(cur[1].code, cur[1].extension, theme_ok),
                result |-> PrettyPrintCode(cur[1], theme_ok)]
  /\ UNCHANGED <<now, cur, coll, stream, written, reader, results>>

\* cur.pretty_print(highlighter, language)
Show ==
  /\ cur # None
  /\ \E colour_ok \in BOOLEAN, theme_ok \in BOOLEAN :
       last' = [op |-> "pretty_print",
                header |-> PrettyPrintHeader(cur[1], colour_ok),
                highlight |-> HighlightCode(cur[1].code, cur[1].extension, theme_ok),
                result |-> PrettyPrint(cur[1], colour_ok, theme_ok)]
  /\ UNCHANGED <<now, cur, coll, stream, written, reader, results>>

NextUse ==
  \/ StoreLoad
  \/ ShowHeader
  \/ ShowCode
  \/ Show

SpecUse == InitUse /\ [][NextUse]_vars

(***************************************************************************)
(* The queries over a collection of snippets.                              *)
(***************************************************************************)
\* a snippet of the collection
Stored(index, tags, date) ==
  New(index, <<"d">>, <<"c">>, GetExtension(<<"c">>), tags, date, date, <<"x">>)

QuerySnippets ==
  {Stored(0, <<>>, 0), Stored(1, <<"a">>, 1), Stored(2, <<"a", "b", " ", "A">>, 1),
   Stored(3, <<"A", " ", "b">>, MaxNow)}

TagQueries == {<<"a">>, <<"A">>, <<"a", "b">>, <<"B">>}

\* the sequences over S of length n or less
RECURSIVE SeqsUpTo(_, _)
SeqsUpTo(S, n) ==
  IF n = 0 THEN {<<>>}
  ELSE SeqsUpTo(S, n - 1)
       \cup {Append(q, x) : q \in {r \in SeqsUpTo(S, n - 1) : Len(r) = n - 1}, x \in S}

InitQuery ==
  /\ now = 0
  /\ cur = None
  /\ coll \in SeqsUpTo(QuerySnippets, MaxColl)
  /\ stream = <<>>
  /\ written = <<>>
  /\ reader = None
  /\ results = <<>>
  /\ last = [op |-> "init"]

\* coll = Snippet::filter_in_date_range(coll, from_date, to_date)?
Filter ==
  /\ \E from_date \in 0..(MaxNow + 1), to_date \in 0..(MaxNow + 1) :
       /\ last' = [op |-> "filter_in_date_range", snippets |-> coll,
                   from_date |-> from_date, to_date |-> to_date,
                   result |-> FilterInDateRange(coll, from_date, to_date)]
       /\ coll' = FilterInDateRange(coll, from_date, to_date)
  /\ UNCHANGED <<now, cur, stream, written, reader, results>>

\* coll[i].has_tag(tag)
AskTag ==
  /\ \E i \in 1..Len(coll), tag \in TagQueries :
       last' = [op |-> "has_tag", self |-> coll[i], tag |-> tag,
                result |-> HasTag(coll[i], tag)]
  /\ UNCHANGED <<now, cur, coll, stream, written, reader, results>>

NextQuery ==
  \/ Filter
  \/ AskTag

SpecQuery == InitQuery /\ [][NextQuery]_vars

(***************************************************************************)
(* Export and import: records appended to a JSON stream by to_json (and    *)
(* records of other origin in the same file), then read by Snippet::read.  *)
(***************************************************************************)
\* the snippets exported
StreamSnippets ==
  {New(300, <<"d">>, <<"c">>, GetExtension(<<"c">>), <<"a", " ", "B">>, 1, MaxNow,
       <<"y", "\n", "z">>),
   New(1, <<"a", "\"", "\\">>, <<"z">>, GetExtension(<<"z">>), <<>>, 0, 1, <<>>)}

\* the records of an import file that to_json did not write: one with the
\* required fields only; one of the older schema, with a source and without
\* updated; one cut short inside its description; one without a description
ForeignRecords ==
  {[name |-> "minimal", malformed |-> FALSE,
    text |-> Object(<<Member(KeyDescription, JsonString(<<"d">>)),
                      Member(KeyLanguage, JsonString(<<"c">>)),
                      Member(KeyCode, JsonString(<<"x">>))>>)],
   [name |-> "legacy", malformed |-> FALSE,
    text |-> Object(<<Member(KeyIndex, FormatNat(1)),
                      Member(KeyDescription, JsonString(<<"d">>)),
                      Member(KeyLanguage, JsonString(<<"c">>)),
                      Member(KeyCode, JsonString(<<"x">>)),
                      Member(KeyDate, JsonString(FormatTime(0))),
                      Member(<<"s", "o", "u", "r", "c", "e">>, JsonString(<<"s">>))>>)],
   [name |-> "truncated", malformed |-> TRUE,
    text |-> <<"{">> \o Member(KeyDescription, <<"\"", "d">>)],
   [name |-> "no description", malformed |-> TRUE,
    text |-> Object(<<Member(KeyLanguage, JsonString(<<"c">>)),
                      Member(KeyCode, JsonString(<<"x">>))>>)]}

InitStream ==
  /\ now = 0
  /\ cur = None
  /\ coll = <<>>
  /\ stream = <<>>
  /\ written = <<>>
  /\ reader = None
  /\ results = <<>>
  /\ last = [op |-> "init"]

\* snippet.to_json(json_writer): one more record at the end of the stream
ToJson ==
  /\ reader = None
  /\ Len(written) < MaxRecords
  /\ \E snippet \in StreamSnippets :
       /\ stream' = stream \o ToJsonText(snippet)
       /\ written' = Append(written, [kind |-> "snippet", snippet |-> snippet,
                                      malformed |-> FALSE])
  /\ UNCHANGED <<now, cur, coll, reader, results, last>>

\* a record of other origin in the file
ForeignWrite ==
  /\ reader = None
  /\ Len(written) < MaxRecords
  /\ \E record \in ForeignRecords :
       /\ stream' = stream \o record.text
       /\ written' = Append(written, [kind |-> "foreign", name |-> record.name,
                                      malformed |-> record.malformed])
  /\ UNCHANGED <<now, cur, coll, reader, results, last>>

\* Snippet::read(json_reader): the iterator, nothing read yet
Read ==
  /\ reader = None
  /\ reader' = Some(NewReader)
  /\ UNCHANGED <<now, cur, coll, stream, written, results, last>>

\* one next() of the iterator
Pull ==
  /\ reader # None
  /\ ~reader[1].done
  /\ LET n == StreamNext(stream, reader[1], now) IN
     /\ reader' = Some(n.rd)
     /\ results' = results \o n.item
  /\ UNCHANGED <<now, cur, coll, stream, written, last>>

NextStream ==
  \/ Tick
  \/ ToJson
  \/ ForeignWrite
  \/ Read
  \/ Pull

SpecStream == InitStream /\ [][NextStream]_vars

(***************************************************************************)
(* The claims.                                                             *)
(***************************************************************************)
Done == reader # None /\ reader[1].done

Resets(runs) == {i \in 1..Len(runs) : runs[i] = END_ANSI}

\* C1: filter_in_date_range(C, a, b) returns exactly the elements of C with
\* a <= date < b, in the order they have in C: as many as C holds in the
\* range, the k-th of the result being the k-th such element of C; the result
\* is empty when a = b.
C1_FilterExact ==
  last.op = "filter_in_date_range" =>
    LET C == last.snippets
        a == last.from_date
        b == last.to_date
        R == last.result
        Kept == {i \in 1..Len(C) : a <= C[i].date /\ C[i].date < b}
        Nth(k) == CHOOSE i \in Kept : Cardinality({j \in Kept : j <= i}) = k
    IN /\ Len(R) = Cardinality(Kept)
       /\ \A k \in 1..Len(R) : R[k] = C[Nth(k)]
       /\ (a = b => R = <<>>)

\* C1, its case: a collection with an element dated from_date, which is kept,
\* and one dated to_date, which is dropped.
C1_Witness ==
  /\ last.op = "filter_in_date_range"
  /\ last.from_date < last.to_date
  /\ \E i, j \in 1..Len(last.snippets) :
       /\ last.snippets[i].date = last.from_date
       /\ last.snippets[j].date = last.to_date
  /\ last.result # <<>>
  /\ Len(last.result) < Len(last.snippets)

\* C2: every snippet this module produces has date <= updated.
C2_DateNotAfterUpdated == cur # None => cur[1].date <= cur[1].updated

\* C3, as claimed: the snippet from_user returns for an edit of s has the
\* index of s, and its updated is the time of the edit.
C3_EditKeepsOldIndex ==
  (last.op = "from_user" /\ last.old_index # None /\ last.ok) =>
    /\ cur[1].index = last.old_index[1]
    /\ cur[1].updated = last.time

\* C3, amended: the snippet from_user returns for an edit has the index
\* from_user was called with, and its updated is the time of the edit.
C3_EditTakesIndexArgument ==
  (last.op = "from_user" /\ last.old_index # None /\ last.ok) =>
    /\ cur[1].index = last.index
    /\ cur[1].updated = last.time

\* C3, its case: an edit called with another index than the old snippet's,
\* at a later time than the snippet's date.
C3_Witness ==
  /\ last.op = "from_user"
  /\ last.old_index # None
  /\ last.ok
  /\ last.index # last.old_index[1]
  /\ last.index # 0
  /\ cur[1].date # last.time

\* C4: the extension of every snippet is the language table's extension for
\* the snippet's own language (the default for a language not in the table).
C4_ExtensionOfLanguage ==
  cur # None => cur[1].extension = GetExtension(cur[1].language)

\* C5: from_bytes(s.to_bytes()) succeeds and is s, field for field.
C5_BinaryRoundTrip ==
  (last.op = "from_bytes" /\ last.cut = 0) => last.result = Ok(cur[1])

\* C5, its case: a snippet with an index of more than one byte, two tags,
\* a date in the middle of a day and code of two lines, stored and loaded.
C5_Witness ==
  /\ last.op = "from_bytes"
  /\ last.cut = 0
  /\ last.result.ok
  /\ last.result.val.index > 255
  /\ Len(last.result.val.tags) = 2
  /\ last.result.val.date % TicksPerDay # 0
  /\ Len(last.result.val.code) > 1

\* C6: a stream of records written by to_json reads back, record for record,
\* as the snippets written: one success per record, equal to the snippet in
\* every field, and nothing more.
C6_JsonRoundTrip ==
  (Done /\ \A i \in 1..Len(written) : written[i].kind = "snippet") =>
    results = [i \in 1..Len(written) |-> Ok(written[i].snippet)]

\* C6, its case: one snippet with no tags and empty code, whose index is not
\* the default 0 and whose date and updated are not the time of the read,
\* written and read back as exactly one result.
C6_Witness ==
  /\ Done
  /\ Len(written) = 1
  /\ written[1].kind = "snippet"
  /\ written[1].snippet.tags = <<>>
  /\ written[1].snippet.code = <<>>
  /\ written[1].snippet.index # 0
  /\ written[1].snippet.date # now
  /\ written[1].snippet.updated # now
  /\ results = <<Ok(written[1].snippet)>>

\* C7: when the k-th record of a stream is the one malformed record, reading
\* the stream to its end gives one result per record: an error for the k-th
\* and a success for every other, those after k included.
C7_MalformedRecordIsolated ==
  Done =>
    \A k \in 1..Len(written) :
      (\A j \in 1..Len(written) : written[j].malformed <=> j = k) =>
        /\ Len(results) = Len(written)
        /\ ~results[k].ok
        /\ \A j \in 1..Len(written) : j # k => results[j].ok

\* C8, as claimed: the list a successful pretty_print returns holds exactly
\* one reset run, and it is the last element.
C8_OneResetLast ==
  (last.op = "pretty_print" /\ last.result.ok) =>
    LET R == last.result.val IN
    /\ Cardinality(Resets(R)) = 1
    /\ R[Len(R)] = END_ANSI

\* C8, amended: the list a successful pretty_print returns holds a reset run
\* as the last run of the header and one as the last run of the code, and no
\* other but those the highlighter itself returned; the reset of the code is
\* followed by two newline runs, which end the list.
C8_ResetEndsHeaderAndCode ==
  (last.op = "pretty_print" /\ last.result.ok) =>
    LET R == last.result.val
        H == last.header.val
    IN /\ SubSeq(R, 2, Len(H) + 1) = H
       /\ H[Len(H)] = END_ANSI
       /\ Len(H) + 1 < Len(R) - 2
       /\ R[Len(R) - 2] = END_ANSI
       /\ R[Len(R) - 1] = Newline
       /\ R[Len(R)] = Newline
       /\ Cardinality(Resets(R)) =
            2 + Cardinality(Resets(SubSeq(H, 1, Len(H) - 1)))
              + Cardinality(Resets(last.highlight.val))

\* C8, its case: a snippet with code of two lines shown in full.
C8_Witness ==
  /\ last.op = "pretty_print"
  /\ last.result.ok
  /\ Len(last.highlight.val) = 2
  /\ Cardinality(Resets(last.result.val)) = 2

\* C9: when highlight_code fails, pretty_print_code and pretty_print still
\* return Ok, with a list that is not empty and holds the whole code as
\* unstyled runs.
C9_HighlightFailureFallsBack ==
  (/\ last.op \in {"pretty_print_code", "pretty_print"}
   /\ ~last.highlight.ok
   /\ (last.op = "pretty_print" => last.header.ok)) =>
    /\ last.result.ok
    /\ last.result.val # <<>>
    /\ \E i \in 1..(Len(last.result.val) + 1), j \in 0..Len(last.result.val) :
         /\ \A k \in i..j : last.result.val[k].style = "none"
         /\ Concat([k \in 1..(j - i + 1) |-> last.result.val[i + k - 1].text]) = cur[1].code

\* C10: has_tag(t) is true exactly when t is one of the tags, the whole
\* string, case for case, wherever it stands among the tags.
C10_HasTagExact ==
  last.op = "has_tag" => (last.result <=> last.tag \in Range(last.self.tags))

\* C10, its case: a snippet tagged "A" and "b" asked for "a": the tag differs
\* in case alone and has_tag is false.
C10_Witness ==
  /\ last.op = "has_tag"
  /\ last.tag = <<"a">>
  /\ last.self.tags = <<<<"A">>, <<"b">>>>
  /\ last.result = FALSE

====
